---- MODULE Spec2Model ----
(***************************************************************************)
(* Distributed ThinLTO link wrapper: tools/clang/scripts/goma_link.py      *)
(* (class GomaLinkWindows).                                                *)
(*                                                                         *)
(* Command-line tokens and paths are strings; the regular expressions and  *)
(* os.path functions of the script are operators that inspect them         *)
(* character by character.  File contents are tuples of byte values.       *)
(***************************************************************************)
EXTENDS Integers, Sequences, FiniteSets, TLC

(***************************************************************************)
(* Character-level string helpers (Python str methods).                    *)
(***************************************************************************)
Ch(s, k) == SubSeq(s, k, k)

\* s[n:] with n counted from 0
From(s, n) == SubSeq(s, n + 1, Len(s))

\* s[:n]
Upto(s, n) == SubSeq(s, 1, n)

\* str.startswith
StartsWith(s, p) == Len(s) >= Len(p) /\ SubSeq(s, 1, Len(p)) = p

UpperAlpha == "ABCDEFGHIJKLMNOPQRSTUVWXYZ"

LowerAlpha == "abcdefghijklmnopqrstuvwxyz"

\* upper-case letter -> lower-case letter
LowerTable ==
  [c \in {Ch(UpperAlpha, k) : k \in 1..26} |->
     Ch(LowerAlpha, CHOOSE k \in 1..26 : Ch(UpperAlpha, k) = c)]

\* one character, lower-cased (re.IGNORECASE, str.lower)
LowerCh(c) == IF c \in DOMAIN LowerTable THEN LowerTable[c] ELSE c

RECURSIVE ToLower(_)
ToLower(s) == IF s = "" THEN "" ELSE LowerCh(Ch(s, 1)) \o ToLower(From(s, 1))

\* case-insensitive startswith, p given in lower case
StartsWithI(s, p) == Len(s) >= Len(p) /\ ToLower(SubSeq(s, 1, Len(p))) = p

\* positions (1-based) where p occurs in s
Occurrences(s, p) ==
  {k \in 1..Len(s) : k + Len(p) - 1 <= Len(s) /\ SubSeq(s, k, k + Len(p) - 1) = p}

\* p in s
Contains(s, p) == p = "" \/ Occurrences(s, p) # {}

SetMax(S) == CHOOSE x \in S : \A y \in S : y <= x

SetMin(S) == CHOOSE x \in S : \A y \in S : x <= y

Digits == "0123456789"

IsDigit(c) == c \in {Ch(Digits, k) : k \in 1..10}

(***************************************************************************)
(* os.path (posixpath): basename, dirname, normpath.                       *)
(***************************************************************************)
\* position of the last '/', 0 when there is none (str.rfind + 1)
LastSlash(p) ==
  LET occ == Occurrences(p, "/") IN IF occ = {} THEN 0 ELSE SetMax(occ)

basename(p) == From(p, LastSlash(p))

RECURSIVE RStripSlash(_)
RStripSlash(s) ==
  IF s # "" /\ Ch(s, Len(s)) = "/" THEN RStripSlash(Upto(s, Len(s) - 1)) ELSE s

\* head = p[:i]; if head and head != '/'*len(head): head = head.rstrip('/')
dirname(p) ==
  LET head == Upto(p, LastSlash(p))
      stripped == RStripSlash(head)
  IN  IF stripped = "" THEN head ELSE stripped

\* str.split('/')
RECURSIVE SplitSlash(_)
SplitSlash(s) ==
  LET occ == Occurrences(s, "/")
  IN  IF occ = {} THEN <<s>>
      ELSE LET k == SetMin(occ)
           IN  <<Upto(s, k - 1)>> \o SplitSlash(From(s, k))

\* '/'.join
RECURSIVE JoinSlash(_)
JoinSlash(q) ==
  IF q = <<>> THEN ""
  ELSE IF Len(q) = 1 THEN q[1]
  ELSE q[1] \o "/" \o JoinSlash(Tail(q))

\* the component loop of posixpath.normpath
RECURSIVE NormComps(_, _, _)
NormComps(comps, acc, rooted) ==
  IF comps = <<>> THEN acc
  ELSE LET c == Head(comps)
       IN  IF c = "" \/ c = "."
           THEN NormComps(Tail(comps), acc, rooted)
           ELSE IF c # ".." \/ (~rooted /\ acc = <<>>)
                     \/ (acc # <<>> /\ acc[Len(acc)] = "..")
                THEN NormComps(Tail(comps), Append(acc, c), rooted)
                ELSE IF acc # <<>>
                     THEN NormComps(Tail(comps), SubSeq(acc, 1, Len(acc) - 1), rooted)
                     ELSE NormComps(Tail(comps), acc, rooted)

normpath(p) ==
  IF p = "" THEN "."
  ELSE LET rooted == StartsWith(p, "/")
           slashes == IF StartsWith(p, "//") /\ ~StartsWith(p, "///") THEN "//"
                      ELSE IF rooted THEN "/" ELSE ""
           joined == slashes \o JoinSlash(NormComps(SplitSlash(p), <<>>, rooted))
       IN  IF joined = "" THEN "." ELSE joined

(***************************************************************************)
(* Platform constants of GomaLinkWindows and the patterns of GomaLinkBase. *)
(***************************************************************************)
WL == ""

TLTO == "-thinlto"

SEP == ":"

OBJ_PATH == "-lto-obj-path" \o SEP

OBJ_SUFFIX == ".obj"

PREFIX_REPLACE == TLTO \o "-prefix-replace" \o SEP

XIR == ""

WHITELISTED_TARGETS == {"chrome.exe", "chrome.dll", "chrome_child.dll", "tls_edit.exe"}

\* exe_suffix() on a host whose os.name is not 'nt'
exe_suffix == ""

\* autoninja() on a host whose os.name is not 'nt'
autoninja == "third_party/depot_tools/autoninja"

\* GROUP_RE = WL + '--(?:end|start)-group', re.match
GROUP_RE_match(s) ==
  StartsWith(s, WL \o "--end-group") \/ StartsWith(s, WL \o "--start-group")

\* OUTPUT_RE = '[-/]out:(.*)', re.IGNORECASE
OUTPUT_RE_match(s) ==
  /\ Len(s) >= 5
  /\ Ch(s, 1) \in {"-", "/"}
  /\ ToLower(SubSeq(s, 2, 5)) = "out:"

OUTPUT_RE_group1(s) == From(s, 5)

\* MACHINE_RE = '[-/]machine:(.*)', re.IGNORECASE
MACHINE_RE_match(s) ==
  /\ Len(s) >= 9
  /\ Ch(s, 1) \in {"-", "/"}
  /\ ToLower(SubSeq(s, 2, 9)) = "machine:"

MACHINE_RE_group1(s) == From(s, 9)

\* MLLVM_RE = '(?:-Wl,)?([-/]mllvm)[:=]?(.*)', re.IGNORECASE
MLLVM_body(s) == IF StartsWithI(s, "-wl,") THEN From(s, 4) ELSE s

MLLVM_RE_match(s) ==
  LET b == MLLVM_body(s)
  IN  /\ Len(b) >= 6
      /\ Ch(b, 1) \in {"-", "/"}
      /\ ToLower(SubSeq(b, 2, 6)) = "mllvm"

MLLVM_RE_group2(s) ==
  LET r == From(MLLVM_body(s), 6)
  IN  IF r # "" /\ Ch(r, 1) \in {":", "="} THEN From(r, 1) ELSE r

\* re.match('(?:-Wl,)?--lto-O(.*)', param)
LTO_O_body(s) == IF StartsWith(s, "-Wl,") THEN From(s, 4) ELSE s

LTO_O_match(s) == StartsWith(LTO_O_body(s), "--lto-O")

LTO_O_group1(s) == From(LTO_O_body(s), 7)

\* re.match('[-/]opt:.*lldlto=([^:]*)', param, re.IGNORECASE)
LldltoPositions(s) == {k \in Occurrences(ToLower(s), "lldlto=") : k >= 6}

OPT_LLDLTO_match(s) ==
  /\ Len(s) >= 5
  /\ Ch(s, 1) \in {"-", "/"}
  /\ ToLower(SubSeq(s, 2, 5)) = "opt:"
  /\ LldltoPositions(s) # {}

OPT_LLDLTO_group1(s) ==
  LET r == From(s, SetMax(LldltoPositions(s)) + 6)
      colons == Occurrences(r, ":")
  IN  IF colons = {} THEN r ELSE Upto(r, SetMin(colons) - 1)

\* LTO_RE: six alternatives, each ending in '.*', re.match
LTO_RE_match(s) ==
  \/ StartsWith(s, "-fsanitize=cfi")
  \/ StartsWith(s, "-flto")
  \/ StartsWith(s, "-fthin")
  \/ StartsWith(s, "-Wl,-plugin-opt=")
  \/ StartsWith(s, "-Wl,--lto")
  \/ StartsWith(s, "-Wl,--thin")

\* LIB_RE = '.*\.(?:a|lib)', re.IGNORECASE, re.match
LIB_RE_match(s) == Contains(ToLower(s), ".a") \/ Contains(ToLower(s), ".lib")

\* OBJ_RE = '(.*)\.(o(?:bj)?)', re.IGNORECASE, re.match: the greedy (.*) ends
\* at the last '.o'
OBJ_RE_match(s) == Occurrences(ToLower(s), ".o") # {}

OBJ_RE_dot(s) == SetMax(Occurrences(ToLower(s), ".o"))

OBJ_RE_group1(s) == Upto(s, OBJ_RE_dot(s) - 1)

OBJ_RE_group2(s) ==
  LET k == OBJ_RE_dot(s)
  IN  IF k + 3 <= Len(s) /\ ToLower(SubSeq(s, k + 2, k + 3)) = "bj"
      THEN SubSeq(s, k + 1, k + 3)
      ELSE SubSeq(s, k + 1, k + 1)

(***************************************************************************)
(* Bounds and inputs.                                                      *)
(***************************************************************************)
\* longest free part of a linker argument vector
MaxArgs == 2

\* longest start of an object file that is enumerated
MaxBytes == 4

\* exit statuses an external tool may report
ExitCodes == {0, 3}

\* Python's None, for values that are otherwise strings
None == "<None>"

RECURSIVE SeqsUpTo(_, _)
SeqsUpTo(S, n) ==
  IF n = 0 THEN {<<>>}
  ELSE LET shorter == SeqsUpTo(S, n - 1)
       IN  shorter \cup {Append(q, x) : q \in {r \in shorter : Len(r) = n - 1}, x \in S}

BC_MAGIC == <<66, 67, 192, 222>>

\* Driver-level inputs: every CLI form, few linker arguments.
DriverHeads ==
  { <<"goma_link.py", "lld-link">>,
    <<"goma_link.py", "--gomacc", "--", "lld-link">>,
    <<"goma_link.py", "--", "lld-link">>,
    <<"goma_link.py", "--gomacc", "gcc", "-j", "4", "--", "bin/lld-link">>,
    <<"goma_link.py", "bin/pnacl-ld">>,
    <<"goma_link.py", "--jobs", "4", "lld-link">>,
    <<"goma_link.py", "--", "pnacl-ld">> }

DriverTokens == {"-out:chrome.exe", "/OUT:d/../foo.exe", "a.obj", "e.o", "b.obj"}

\* Classifier-level inputs: one CLI form, every kind of token.
ClassifyPrefixes ==
  { <<"-v", "-out:chrome.exe", "a.obj">>, <<"-v", "/out:foo.exe", "a.obj">> }

ClassifyTokens ==
  { "a.obj", "./a.obj", "a.obj.x", "b.obj", "c.bc", "foo",
    "-mllvm", "/mllvm:foo", "--lto-O3", "-Wl,--lto-O1", "/opt:lldlto=0",
    "--start-group", "-fno-x", "/machine:X86", "-out:x.obj" }

DriverArgvs ==
  {h \o a : h \in DriverHeads, a \in SeqsUpTo(DriverTokens, MaxArgs + 1)}
  \cup {<<"goma_link.py">>, <<"goma_link.py", "--gomacc", "gcc", "--">>}

ClassifyArgvs ==
  {<<"goma_link.py", "lld-link">> \o pre \o a :
     pre \in ClassifyPrefixes, a \in SeqsUpTo(ClassifyTokens, MaxArgs)}


(***************************************************************************)
(* State.                                                                  *)
(***************************************************************************)
VARIABLES
  pc,              \* position in do_main / analyze_args / the executor
  argv,            \* sys.argv
  args,            \* the result of parse_args plus args.output
  gomacc, jobs,    \* GomaLinkBase.gomacc, GomaLinkBase.jobs
  expanded_args, i,            \* analyze_args: the loop over expanded_args
  index_params, codegen, codegen_params, final_params,
  in_mllvm, optlevel,
  splitfile,
  files,           \* path -> content, for the files that exist
  index_rsp,       \* the parameters written to the index response file
  used_obj_file,   \* the used-object-list file: [exists, lines]
  objs,            \* the native objects passed to gen_ninja
  ninja,           \* the build graph written by gen_ninja
  built,           \* executor: CodegenNodes (by position) completed
  node_failed,     \* executor: some node has failed
  link_started,    \* executor: the FinalLinkNode's command has been started
  procs,           \* the subprocesses run so far: <<[cmd, rc], ...>>
  result           \* the exit status of main, None while running

vars ==
  <<pc, argv, args, gomacc, jobs, expanded_args, i, index_params, codegen,
    codegen_params, final_params, in_mllvm, optlevel, splitfile, files,
    index_rsp, used_obj_file, objs, ninja, built, node_failed, link_started,
    procs, result>>

(***************************************************************************)
(* Pure helpers of the script.                                             *)
(***************************************************************************)
\* str.replace(old, new), old non-empty
RECURSIVE Replace(_, _, _)
Replace(s, old, new) ==
  LET occ == Occurrences(s, old)
  IN  IF occ = {} THEN s
      ELSE LET k == SetMin(occ)
           IN  Upto(s, k - 1) \o new \o Replace(From(s, k - 1 + Len(old)), old, new)

ninjaenc(s) == Replace(s, "$", "$$")

RECURSIVE ninjajoin(_)
ninjajoin(l) ==
  IF l = <<>> THEN ""
  ELSE IF Len(l) = 1 THEN ninjaenc(l[1])
  ELSE ninjaenc(l[1]) \o " " \o ninjajoin(Tail(l))

rspenc(param) == Replace(param, "\\%", "%")

RECURSIVE MapRspenc(_)
MapRspenc(params) ==
  IF params = <<>> THEN <<>> ELSE <<rspenc(Head(params))>> \o MapRspenc(Tail(params))

\* os.path.exists, for the paths the model's file table knows
exists(fs, path) == path # "" /\ normpath(path) \in DOMAIN fs

\* f.read(n) at the start of a file
ReadHead(content, n) == SubSeq(content, 1, IF Len(content) < n THEN Len(content) ELSE n)

\* a fault: only the bytes the file has are compared with the magic
is_bitcode_file_short(fs, path) ==
  LET head == ReadHead(fs[normpath(path)], 4)
  IN  head = SubSeq(BC_MAGIC, 1, Len(head))

is_bitcode_file(fs, path) == ReadHead(fs[normpath(path)], 4) = BC_MAGIC

\* create_file: an empty file at path
create_file(fs, path) == (normpath(path) :> <<>>) @@ fs

(***************************************************************************)
(* parse_args.  The options argparse knows are --gomacc X and --jobs/-j N; *)
(* anything else in the option part makes argparse exit (SystemExit).      *)
(***************************************************************************)
\* a fault: the separator is never found
DashDashIndex_never(a) == -1

\* args.index('--'), counted from 0; -1 when list.index raises
DashDashIndex(a) ==
  IF \E k \in 1..Len(a) : a[k] = "--"
  THEN (CHOOSE k \in 1..Len(a) : a[k] = "--" /\ \A j \in 1..(k - 1) : a[j] # "--") - 1
  ELSE -1

RECURSIVE ap_parse_args(_, _)
ap_parse_args(q, acc) ==
  IF q = <<>> THEN acc
  ELSE IF Len(q) >= 2 /\ Head(q) = "--gomacc" /\ ~StartsWith(q[2], "-")
       THEN ap_parse_args(SubSeq(q, 3, Len(q)), [acc EXCEPT !.gomacc = q[2]])
       ELSE IF Len(q) >= 2 /\ Head(q) \in {"--jobs", "-j"} /\ ~StartsWith(q[2], "-")
            THEN ap_parse_args(SubSeq(q, 3, Len(q)), [acc EXCEPT !.jobs = q[2]])
            ELSE [acc EXCEPT !.status = "SystemExit"]

parse_args(a) ==
  LET splitpos == DashDashIndex(a)
      split == splitpos >= 1
      parsed == ap_parse_args(IF split THEN SubSeq(a, 2, splitpos) ELSE <<>>,
                              [status |-> "ok", gomacc |-> None, jobs |-> None])
      rest == IF split THEN From(a, splitpos + 1) ELSE From(a, 1)
  IN  IF parsed.status # "ok"
      THEN [status |-> "SystemExit", gomacc |-> None, jobs |-> None,
            linker |-> None, linker_args |-> <<>>, output |-> None]
      ELSE IF rest = <<>>
           THEN [status |-> "IndexError", gomacc |-> None, jobs |-> None,
                 linker |-> None, linker_args |-> <<>>, output |-> None]
           ELSE [status |-> "ok", gomacc |-> parsed.gomacc, jobs |-> parsed.jobs,
                 linker |-> rest[1], linker_args |-> Tail(rest), output |-> None]

\* GomaLinkWindows.process_output_param(args, i), i counted from 0:
\* <<output name or None, next i>>
process_output_param(a, k) ==
  IF OUTPUT_RE_match(a[k + 1])
  THEN <<normpath(OUTPUT_RE_group1(a[k + 1])), k + 1>>
  ELSE <<None, k + 1>>

\* the loop of output_path, from position k
RECURSIVE OutputPathFrom(_, _)
OutputPathFrom(a, k) ==
  IF k < Len(a)
  THEN LET r == process_output_param(a, k)
       IN  IF r[1] # None THEN r[1] ELSE OutputPathFrom(a, r[2])
  ELSE None

output_path(a) == OutputPathFrom(a, 2)

\* int(args.jobs) succeeds
IsInt(s) == s # "" /\ \A k \in 1..Len(s) : IsDigit(Ch(s, k))

\* str(int(s)) for a string of digits
RECURSIVE IntStr(_)
IntStr(s) == IF Len(s) > 1 /\ Ch(s, 1) = "0" THEN IntStr(From(s, 1)) ELSE s

\* the truth value of an option's value: None and '' are false
IsSet(v) == v # None /\ v # ""

(***************************************************************************)
(* do_main / analyze_args: names derived from the parsed command line.     *)
(***************************************************************************)
common_dir == "common_objs"

\* a fault: the test of the whitelist is inverted
use_common_objects_inverted(a) == basename(a.output) \in WHITELISTED_TARGETS

\* do_main lines 535 and 545
use_common_objects(a) == basename(a.output) \notin WHITELISTED_TARGETS

gen_dir(a) == "lto." \o basename(a.output)

obj_dir(a) == IF use_common_objects(a) THEN common_dir ELSE gen_dir(a)

common_index == common_dir \o "/empty.thinlto.bc"

\* analyze_args: the NaCl toolchain is excluded
IsExcludedToolchain(a) == StartsWith(basename(a.linker), "pnacl-")

compiler(a) ==
  IF Contains(basename(a.linker), "clang") THEN a.linker
  ELSE (IF dirname(a.linker) # "" THEN dirname(a.linker) \o "/" ELSE "")
       \o "clang-cl" \o exe_suffix

used_obj_path(a) == gen_dir(a) \o "/" \o a.output \o ".objs"

index_rsp_path(a) == gen_dir(a) \o "/" \o a.output \o ".index.rsp"

splitfile_path(a) == gen_dir(a) \o "/" \o a.output \o ".split" \o OBJ_SUFFIX

\* the native object path before os.path.normpath
native_raw(a, param) ==
  obj_dir(a) \o "/" \o OBJ_RE_group1(param) \o "." \o OBJ_RE_group2(param)

(***************************************************************************)
(* analyze_args.transform_codegen_param: <<parameters for clang (<<>> for  *)
(* None), optlevel afterwards>>.                                           *)
(***************************************************************************)
\* a fault: the flag is handed to clang in the linker's spelling
cg_mllvm_verbatim(param) == <<param>>

\* lines 347-352: an mllvm flag, with or without its value
cg_mllvm(param) ==
  IF MLLVM_RE_group2(param) # ""
  THEN <<"-mllvm", MLLVM_RE_group2(param)>>
  ELSE <<"-mllvm">>

\* a fault: the optimization level flag is also handed to clang
cg_optlevel_copied(param) == <<param>>

\* lines 353-360: an optimization level flag gives no parameter (None)
cg_optlevel(param) == <<>>

transform_codegen_param(param, ol) ==
  IF MACHINE_RE_match(param)
     /\ ToLower(MACHINE_RE_group1(param)) \in {"x86", "i386", "arm", "32"}
  THEN [cg |-> <<"-m32">>, optlevel |-> ol]
  ELSE IF MLLVM_RE_match(param)
  THEN [cg |-> cg_mllvm(param), optlevel |-> ol]
  ELSE IF LTO_O_match(param)
  THEN [cg |-> cg_optlevel(param), optlevel |-> LTO_O_group1(param)]
  ELSE IF OPT_LLDLTO_match(param)
  THEN [cg |-> cg_optlevel(param), optlevel |-> OPT_LLDLTO_group1(param)]
  ELSE IF /\ StartsWith(param, "-f")
          /\ ~StartsWith(param, "-flto")
          /\ ~StartsWith(param, "-fsanitize")
          /\ ~StartsWith(param, "-fthinlto")
          /\ ~StartsWith(param, "-fwhole-program")
  THEN [cg |-> <<param>>, optlevel |-> ol]
  ELSE [cg |-> <<>>, optlevel |-> ol]

(***************************************************************************)
(* analyze_args.process_param on the classifier state                      *)
(*   st = [index_params, codegen, codegen_params, final_params, in_mllvm,  *)
(*         optlevel, files].                                               *)
(***************************************************************************)
\* lines 373-386: the mllvm state and the code generation parameters
process_param_codegen(st, param) ==
  IF st.in_mllvm
  THEN [st EXCEPT
          !.codegen_params =
             Append(@, IF StartsWith(param, "-Wl,") THEN From(param, 4) ELSE param),
          !.in_mllvm = FALSE]
  ELSE LET t == transform_codegen_param(param, st.optlevel)
       IN  [st EXCEPT
              !.codegen_params = @ \o t.cg,
              !.optlevel = t.optlevel,
              !.in_mllvm = MLLVM_RE_match(param) /\ MLLVM_RE_group2(param) = ""]

\* a fault: the bitcode file is registered and also left in the final link
register_bitcode_and_keep(st, param, a) ==
  [st EXCEPT !.codegen = Append(@, <<normpath(native_raw(a, param)), param, common_index>>),
             !.final_params = Append(@, param)]

\* lines 392-399: a bitcode file is registered for code generation
register_bitcode(st, param, a) ==
  LET index == IF use_common_objects(a) THEN common_index
               ELSE obj_dir(a) \o "/" \o param \o ".thinlto.bc"
  IN  [st EXCEPT
         !.files = IF use_common_objects(a) THEN @ ELSE create_file(@, index),
         !.codegen = Append(@, <<normpath(native_raw(a, param)), param, index>>)]

\* a fault: the index file of an object file is created before the file is
\* tested for bitcode
process_param_files_index_first(st, param, a) ==
  LET st1 == [st EXCEPT
                !.index_params = Append(@, param),
                !.files = IF exists(st.files, param) /\ OBJ_RE_match(param)
                          THEN create_file(@, obj_dir(a) \o "/" \o param \o ".thinlto.bc")
                          ELSE @]
  IN  IF exists(st.files, param)
      THEN IF OBJ_RE_match(param) /\ is_bitcode_file(st.files, param)
           THEN register_bitcode(st1, param, a)
           ELSE [st1 EXCEPT !.final_params = Append(@, param)]
      ELSE IF ~LTO_RE_match(param)
           THEN [st1 EXCEPT !.final_params = Append(@, param)]
           ELSE st1

\* lines 389-403: index parameters, bitcode registration, final parameters
process_param_files(st, param, a) ==
  LET st1 == [st EXCEPT !.index_params = Append(@, param)]
  IN  IF exists(st.files, param)
      THEN IF OBJ_RE_match(param) /\ is_bitcode_file(st.files, param)
           THEN register_bitcode(st1, param, a)
           ELSE [st1 EXCEPT !.final_params = Append(@, param)]
      ELSE IF ~LTO_RE_match(param)
           THEN [st1 EXCEPT !.final_params = Append(@, param)]
           ELSE st1

process_param(st, param, a) ==
  LET st1 == process_param_codegen(st, param)
  IN  IF GROUP_RE_match(param) THEN st1 ELSE process_param_files(st1, param, a)

\* a fault: the output flag is put in front of the final parameters
classify_token_output_first(st, x, a) ==
  IF ~GROUP_RE_match(x)
  THEN IF OUTPUT_RE_match(x)
       THEN [st EXCEPT !.index_params = Append(@, x),
                       !.final_params = <<x>> \o @]
       ELSE process_param(st, x, a)
  ELSE st

\* a fault: a group marker is handed to process_param
classify_token_group_as_param(st, x, a) ==
  IF OUTPUT_RE_match(x) /\ ~GROUP_RE_match(x)
  THEN [st EXCEPT !.index_params = Append(@, x),
                  !.final_params = Append(@, x)]
  ELSE process_param(st, x, a)

\* a fault: an output flag is classified like any other parameter
classify_token_no_output_rule(st, x, a) ==
  IF ~GROUP_RE_match(x) THEN process_param(st, x, a) ELSE st

\* lines 411-419: one iteration of the loop over expanded_args (without i += 1)
classify_token(st, x, a) ==
  IF ~GROUP_RE_match(x)
  THEN IF OUTPUT_RE_match(x)
       THEN [st EXCEPT !.index_params = Append(@, x),
                       !.final_params = Append(@, x)]
       ELSE process_param(st, x, a)
  ELSE st

\* lines 409-420: the whole loop over the expanded arguments l
RECURSIVE classify_all(_, _, _)
classify_all(st, l, a) ==
  IF l = <<>> THEN st ELSE classify_all(classify_token(st, Head(l), a), Tail(l), a)

\* lines 426-437: what analyze_args adds once some bitcode file is registered
RECURSIVE Natives(_)
Natives(cg) == IF cg = <<>> THEN <<>> ELSE <<Head(cg)[1]>> \o Natives(Tail(cg))

\* a fault: the default level is written, whatever was captured
finish_codegen_params_default(cgp, ol) == Append(cgp, "-O2")

\* line 426
finish_codegen_params(cgp, ol) == Append(cgp, "-O" \o ol)

finish_final_params(fp, cg, a) ==
  IF use_common_objects(a) THEN fp \o Natives(cg)
  ELSE fp \o <<splitfile_path(a), "@" \o used_obj_path(a)>>

\* a fault: the lto-obj-path directive is added in shared mode as well
finish_index_params_always(ip, a) == Append(ip, WL \o OBJ_PATH \o splitfile_path(a))

\* lines 432-435
finish_index_params(ip, a) ==
  IF use_common_objects(a) THEN ip
  ELSE Append(ip, WL \o OBJ_PATH \o splitfile_path(a))

(***************************************************************************)
(* Bytes and text: bytes.decode('UTF-8', 'backslashreplace') for ASCII     *)
(* bytes and for bytes that are not valid UTF-8 on their own.              *)
(***************************************************************************)
\* the characters with codes 32..95 and 97..126 (a TLA+ string cannot hold
\* the grave accent, 96, which is written like an undecodable byte)
PrintableLow == " !\"#$%&'()*+,-./0123456789:;<=>?@ABCDEFGHIJKLMNOPQRSTUVWXYZ[\\]^_"

PrintableHigh == "abcdefghijklmnopqrstuvwxyz{|}~"

HexDigits == "0123456789abcdef"

DecodeByte(b) ==
  IF b >= 32 /\ b <= 95 THEN Ch(PrintableLow, b - 31)
  ELSE IF b >= 97 /\ b <= 126 THEN Ch(PrintableHigh, b - 96)
  ELSE IF b = 10 THEN "\n"
  ELSE IF b = 9 THEN "\t"
  ELSE IF b = 13 THEN "\r"
  ELSE "\\x" \o Ch(HexDigits, (b \div 16) + 1) \o Ch(HexDigits, (b % 16) + 1)

RECURSIVE Decode(_)
Decode(bytes) ==
  IF bytes = <<>> THEN "" ELSE DecodeByte(Head(bytes)) \o Decode(Tail(bytes))

\* bytes [from, to) of a file, as f.read clips them at the end of the file
Slice(content, from, to) ==
  SubSeq(content, from + 1, IF to > Len(content) THEN Len(content) ELSE to)

IsSpaceByte(b) == b \in {32, 9, 10, 11, 12, 13}

RECURSIVE StripBytes(_)
StripBytes(bytes) ==
  IF bytes # <<>> /\ IsSpaceByte(Head(bytes)) THEN StripBytes(Tail(bytes))
  ELSE IF bytes # <<>> /\ IsSpaceByte(bytes[Len(bytes)])
       THEN StripBytes(SubSeq(bytes, 1, Len(bytes) - 1))
       ELSE bytes

IsDigitByte(b) == b >= 48 /\ b <= 57

RECURSIVE DigitsValue(_)
DigitsValue(bytes) ==
  IF bytes = <<>> THEN 0
  ELSE DigitsValue(SubSeq(bytes, 1, Len(bytes) - 1)) * 10 + (bytes[Len(bytes)] - 48)

\* long(b'...'): surrounding whitespace is ignored; signs do not occur in
\* the size and offset fields the model reads
IsLong(bytes) ==
  LET t == StripBytes(bytes)
  IN  t # <<>> /\ \A k \in 1..Len(t) : IsDigitByte(t[k])

LongValue(bytes) == DigitsValue(StripBytes(bytes))

(***************************************************************************)
(* names_in_archive: [names |-> the names yielded, raised |-> whether the  *)
(* generator ended with an exception].                                     *)
(***************************************************************************)
SYMTAB_ID == <<47>> \o [k \in 1..15 |-> 32]

LONGNAMES_ID == <<47, 47>> \o [k \in 1..14 |-> 32]

\* re.match(b'/([0-9]+)', file_id): the digits of group 1, <<>> if no match
RECURSIVE LeadingDigits(_)
LeadingDigits(bytes) ==
  IF bytes # <<>> /\ IsDigitByte(Head(bytes))
  THEN <<Head(bytes)>> \o LeadingDigits(Tail(bytes))
  ELSE <<>>

OffsetDigits(file_id) ==
  IF file_id # <<>> /\ Head(file_id) = 47 THEN LeadingDigits(Tail(file_id)) ELSE <<>>

\* a fault: the terminator is searched from the start of the table
FindTerminator_from_start(table, start) ==
  LET hits == {k \in 0..(Len(table) - 2) : table[k + 1] = 47 /\ table[k + 2] = 10}
  IN  IF hits = {} THEN -1 ELSE SetMin(hits)

\* bytes.find(b'/\n', start): position counted from 0, -1 if absent
FindTerminator(table, start) ==
  LET hits == {k \in start..(Len(table) - 2) : table[k + 1] = 47 /\ table[k + 2] = 10}
  IN  IF hits = {} THEN -1 ELSE SetMin(hits)

\* long_names[name_pos:name_end], name_end possibly -1
PySlice(table, from, to) ==
  LET n == Len(table)
      lo == IF from > n THEN n ELSE from
      hi == IF to < 0 THEN (IF n + to < 0 THEN 0 ELSE n + to)
            ELSE IF to > n THEN n ELSE to
  IN  IF lo >= hi THEN <<>> ELSE SubSeq(table, lo + 1, hi)

RECURSIVE names_from(_, _, _, _)
names_from(content, pos, long_names, names) ==
  LET file_id == Slice(content, pos, pos + 16)
      digits == OffsetDigits(file_id)
      name == IF long_names # <<>> /\ digits # <<>>
              THEN PySlice(long_names, DigitsValue(digits),
                           FindTerminator(long_names, DigitsValue(digits)))
              ELSE file_id
      size_field == Slice(content, pos + 48, pos + 58)
      size == LongValue(size_field)
      after == pos + 58
  IN  IF Len(file_id) = 0 THEN [names |-> names, raised |-> FALSE]
      ELSE IF ~IsLong(size_field) THEN [names |-> names, raised |-> TRUE]
      ELSE IF file_id = SYMTAB_ID
      THEN names_from(content, after + 2 + size + (size % 2), long_names, names)
      ELSE IF file_id = LONGNAMES_ID
      THEN names_from(content, after + 2 + size + (size % 2),
                      Slice(content, after + 2, after + 2 + size), names)
      ELSE names_from(content, after + 2, long_names, Append(names, Decode(name)))

names_in_archive(fs, path) == names_from(fs[normpath(path)], 8, <<>>, <<>>)

is_thin_archive(fs, path) ==
  ReadHead(fs[normpath(path)], 8) = <<33, 60, 116, 104, 105, 110, 62, 10>>

(***************************************************************************)
(* expand_rsp, expand_args_rsps, expand_thin_archives.  Each returns       *)
(* [list |-> the expanded arguments, raised |-> an exception ended it].    *)
(***************************************************************************)
\* shlex.split for text without quotes, escapes or comments characters:
\* the words between runs of whitespace
RECURSIVE shlex_split(_, _)
shlex_split(text, word) ==
  IF text = "" THEN (IF word = "" THEN <<>> ELSE <<word>>)
  ELSE IF Ch(text, 1) \in {" ", "\t", "\r", "\n"}
       THEN (IF word = "" THEN <<>> ELSE <<word>>) \o shlex_split(From(text, 1), "")
       ELSE shlex_split(From(text, 1), word \o Ch(text, 1))

expand_rsp(fs, rspname) == shlex_split(Decode(fs[normpath(rspname)]), "")

RECURSIVE expand_args_rsps(_, _)
expand_args_rsps(fs, l) ==
  IF l = <<>> THEN [list |-> <<>>, raised |-> FALSE]
  ELSE LET arg == Head(l)
           rest == expand_args_rsps(fs, Tail(l))
       IN  IF Len(arg) > 0 /\ Ch(arg, 1) = "@"
           THEN IF ~exists(fs, From(arg, 1))
                THEN [list |-> <<>>, raised |-> TRUE]
                ELSE [rest EXCEPT !.list = expand_rsp(fs, From(arg, 1)) \o @]
           ELSE [rest EXCEPT !.list = <<arg>> \o @]

\* a fault: the member names are not resolved against the archive's directory
PrefixAll_dropped(prefix, names) == names

\* lines 285-286: prefix + name for every member name
RECURSIVE PrefixAll(_, _)
PrefixAll(prefix, names) ==
  IF names = <<>> THEN <<>>
  ELSE <<prefix \o Head(names)>> \o PrefixAll(prefix, Tail(names))

RECURSIVE expand_thin_archives(_, _)
expand_thin_archives(fs, l) ==
  IF l = <<>> THEN [list |-> <<>>, raised |-> FALSE]
  ELSE LET arg == Head(l)
           prefix == IF dirname(arg) # "" THEN dirname(arg) \o "/" ELSE ""
           rest == expand_thin_archives(fs, Tail(l))
       IN  IF LIB_RE_match(arg) /\ exists(fs, arg) /\ is_thin_archive(fs, arg)
           THEN LET members == names_in_archive(fs, arg)
                IN  IF members.raised THEN [list |-> <<>>, raised |-> TRUE]
                    ELSE [rest EXCEPT
                            !.list = <<WL \o "-start-lib">>
                                     \o PrefixAll(prefix, members.names)
                                     \o <<WL \o "-end-lib">> \o @]
           ELSE [rest EXCEPT !.list = <<arg>> \o @]

\* analyze_args lines 407-408
expand_all(fs, l) ==
  LET rsp == expand_args_rsps(fs, l)
  IN  IF rsp.raised THEN rsp ELSE expand_thin_archives(fs, rsp.list)

(***************************************************************************)
(* gen_ninja: the build graph.                                             *)
(***************************************************************************)
\* a fault: only the first registered unit gets a build statement
codegen_nodes_first_only(cg) ==
  IF cg = <<>> THEN <<>>
  ELSE <<[out |-> ninjaenc(cg[1][1]),
          inputs |-> <<ninjaenc(cg[1][2]), ninjaenc(cg[1][3])>>,
          bitcode |-> ninjaenc(cg[1][2]),
          index |-> ninjaenc(cg[1][3])]>>

\* lines 467-470: one codegen build statement per element of params.codegen
RECURSIVE codegen_nodes(_)
codegen_nodes(cg) ==
  IF cg = <<>> THEN <<>>
  ELSE <<[out |-> ninjaenc(Head(cg)[1]),
          inputs |-> <<ninjaenc(Head(cg)[2]), ninjaenc(Head(cg)[3])>>,
          bitcode |-> ninjaenc(Head(cg)[2]),
          index |-> ninjaenc(Head(cg)[3])]>>
       \o codegen_nodes(Tail(cg))

RECURSIVE MapNinjaenc(_)
MapNinjaenc(l) ==
  IF l = <<>> THEN <<>> ELSE <<ninjaenc(Head(l))>> \o MapNinjaenc(Tail(l))

\* a fault: the native-link build statement names no inputs
link_inputs_none(o) == <<>>

\* the inputs of the native-link build statement: ninjajoin(objs)
link_inputs(o) == MapNinjaenc(o)

gen_ninja(a, gcc, cg, cgp, fp, o) ==
  [ link_command |-> ninjaenc(a.linker) \o " @$rspname",
    codegen_command |->
      ninjaenc(gcc) \o " " \o ninjaenc(compiler(a)) \o " -c " \o ninjajoin(cgp)
      \o " -fthinlto-index=$index " \o XIR \o "$bitcode -o $out",
    codegen |-> codegen_nodes(cg),
    link |-> [out |-> ninjaenc(a.output),
              inputs |-> link_inputs(o),
              rspname |-> ninjaenc(a.output \o ".final.rsp"),
              params |-> ninjajoin(fp)],
    default |-> ninjaenc(a.output) ]

\* The build graph that a whole run of do_main on the command line av, with
\* the files fs, writes in shared mode when it registers some bitcode file
\* (lines 526-548, 553-554 and 514).
run_graph(av, fs) ==
  LET a == [parse_args(av) EXCEPT !.output = output_path(Tail(av))]
      st0 == [index_params |-> <<WL \o PREFIX_REPLACE \o ";" \o obj_dir(a)>>,
              codegen |-> <<>>,
              codegen_params |-> <<"-Wno-unused-command-line-argument",
                                   "-Wno-override-module">>,
              final_params |-> <<>>, in_mllvm |-> FALSE, optlevel |-> "2",
              files |-> fs]
      st == classify_all(st0, expand_all(fs, a.linker_args).list, a)
  IN  gen_ninja(a, IF IsSet(a.gomacc) THEN a.gomacc ELSE "gomacc", st.codegen,
                finish_codegen_params(st.codegen_params, st.optlevel),
                finish_final_params(st.final_params, st.codegen, a),
                Natives(st.codegen))

\* no build.ninja has been written
NoGraph ==
  [ link_command |-> None, codegen_command |-> None, codegen |-> <<>>,
    link |-> [out |-> None, inputs |-> <<>>, rspname |-> None, params |-> None],
    default |-> None ]

\* thin_link: the command of the index-only link
index_cmd(a) ==
  << a.linker,
     WL \o TLTO \o "-index-only" \o SEP \o used_obj_path(a),
     WL \o TLTO \o "-emit-imports-files",
     "@" \o index_rsp_path(a) >>

\* thin_link: [os.path.normpath(x) for x in f.read().split('\n') if len(x) > 0]
RECURSIVE read_used_objs(_)
read_used_objs(lines) ==
  IF lines = <<>> THEN <<>>
  ELSE (IF Len(Head(lines)) > 0 THEN <<normpath(Head(lines))>> ELSE <<>>)
       \o read_used_objs(Tail(lines))

\* codegen_and_link: the command that runs the executor
ninja_cmd(a, j) ==
  <<autoninja, "-f", gen_dir(a) \o "/build.ninja">>
  \o (IF j # None /\ j # "0" THEN <<"-j", j>> ELSE <<>>)

\* a fault: any failure becomes exit status 1
main_status_one(rc) == IF rc # 0 THEN 1 ELSE 0

\* main: a CalledProcessError becomes the exit status, success is 0
main_status(rc) == IF rc # 0 THEN rc ELSE 0

\* The index-only linker's used-object list: the native object paths of a
\* subset of the registered bitcode files, in registration order.
RECURSIVE linker_used_objs(_, _, _)
linker_used_objs(a, cg, keep) ==
  IF cg = <<>> THEN <<>>
  ELSE linker_used_objs(a, SubSeq(cg, 1, Len(cg) - 1), keep)
       \o (IF Len(cg) \in keep THEN <<native_raw(a, cg[Len(cg)][2])>> ELSE <<>>)

(***************************************************************************)
(* The files on disk before the run.                                       *)
(***************************************************************************)
\* str.encode for the characters DecodeByte produces
EncodeCh(c) == CHOOSE b \in 9..126 : DecodeByte(b) = c

RECURSIVE Encode(_)
Encode(s) == IF s = "" THEN <<>> ELSE <<EncodeCh(Ch(s, 1))>> \o Encode(From(s, 1))

Spaces(n) == [k \in 1..n |-> 32]

\* a header field: the text, padded with spaces to n bytes
Field(text, n) == Encode(text) \o Spaces(n - Len(text))

\* an archive member header: 16 bytes of name, 32 bytes of dates and modes,
\* 10 bytes of size, and the two terminating characters
MemberHeader(name, size) ==
  Field(name, 16) \o Spaces(32) \o Field(size, 10) \o <<96, 10>>

THIN_MAGIC == Encode("!<thin>\n")

\* a thin archive with an extended-name table: members a.obj and e.o
LongNamesArchive ==
  THIN_MAGIC \o MemberHeader("//", "12") \o Encode("a.obj/\ne.o/\n")
  \o MemberHeader("/0", "6") \o MemberHeader("/7", "6")

\* a thin archive in a directory: member b.obj (odd table size, one pad byte)
DirArchive ==
  THIN_MAGIC \o MemberHeader("//", "7") \o Encode("b.obj/\n") \o <<10>>
  \o MemberHeader("/0", "2")

\* a thin archive with short names and no extended-name table: a.o and b.o
ShortNamesArchive ==
  THIN_MAGIC \o MemberHeader("a.o/", "6") \o MemberHeader("b.o/", "6")

\* a regular archive: its member's data follows the header
RegularArchive ==
  Encode("!<arch>\n") \o MemberHeader("a.o/", "6") \o BC_MAGIC \o <<1, 2>>

\* the file ends inside the size field of its only member header
TruncatedSizeArchive ==
  THIN_MAGIC \o Field("a.o/", 16) \o Spaces(32) \o Encode("12")

\* the extended-name table has no terminator after offset 0
NoTerminatorArchive ==
  THIN_MAGIC \o MemberHeader("//", "5") \o Encode("a.obj") \o <<10>>
  \o MemberHeader("/0", "6")

\* the size field is not a decimal number
BadSizeArchive == THIN_MAGIC \o MemberHeader("a.o/", "xx")

Bitcode == BC_MAGIC \o <<1, 2>>

\* path -> content (bytes).
\*   a.obj, a.obj.x, e.o, c.bc, -out:x.obj: LLVM bitcode
\*   b.obj: a 2-byte file, not bitcode
\*   r.rsp, n.rsp: response files, n.rsp refers to r.rsp
DiskFiles ==
  [p \in {"a.obj", "a.obj.x", "e.o", "c.bc", "-out:x.obj"} |-> Bitcode]
  @@ ("b.obj" :> <<77, 90>>)
  @@ ("r.rsp" :> Encode("a.obj lib.a\n"))
  @@ ("n.rsp" :> Encode("@r.rsp b.obj"))
  @@ ("lib.a" :> LongNamesArchive)
  @@ ("thinlib" :> LongNamesArchive)
  @@ ("d/lib.a" :> DirArchive)
  @@ ("short.a" :> ShortNamesArchive)
  @@ ("reg.a" :> RegularArchive)
  @@ ("trunc.a" :> TruncatedSizeArchive)
  @@ ("noterm.a" :> NoTerminatorArchive)
  @@ ("bad.a" :> BadSizeArchive)
  \* a symbol table of odd size, an extended-name table, members e.o and a.obj
  @@ ("sym.a" :>
        THIN_MAGIC \o MemberHeader("/", "3") \o <<1, 2, 3, 10>>
        \o MemberHeader("//", "12") \o Encode("a.obj/\ne.o/\n")
        \o MemberHeader("/7", "6") \o MemberHeader("/0", "6"))
  \* a symbol table of even size and no extended-name table, member b.o
  @@ ("symonly.a" :>
        THIN_MAGIC \o MemberHeader("/", "4") \o <<1, 2, 3, 4>>
        \o MemberHeader("b.o/", "6"))

\* File-level inputs: the contents of an object file, from the bytes of
\* the bitcode magic and one other byte, alone or followed by more data.
HeadBytes == {66, 67, 192, 222, 0}

BitcodeContents ==
  {c \o t : c \in SeqsUpTo(HeadBytes, MaxBytes), t \in {<<>>, <<1, 2>>}}

\* Expansion-level inputs: response files and archives of every kind.
ExpandTokens ==
  { "@r.rsp", "@n.rsp", "lib.a", "thinlib", "d/lib.a", "short.a", "reg.a",
    "trunc.a", "noterm.a", "bad.a", "none.a", "b.obj", "sym.a", "symonly.a" }

ExpandArgvs ==
  {<<"goma_link.py", "lld-link", "-v", "-out:foo.exe">> \o a :
     a \in SeqsUpTo(ExpandTokens, MaxArgs)}

(***************************************************************************)
(* Initial states: the script is started with some command line.           *)
(***************************************************************************)
InitOn(a, fs) ==
  /\ argv = a
  /\ pc = "start"
  /\ args = [status |-> "ok", gomacc |-> None, jobs |-> None, linker |-> None,
             linker_args |-> <<>>, output |-> None]
  /\ gomacc = "gomacc"
  /\ jobs = None
  /\ expanded_args = <<>>
  /\ i = 0
  /\ index_params = <<>>
  /\ codegen = <<>>
  /\ codegen_params = <<>>
  /\ final_params = <<>>
  /\ in_mllvm = FALSE
  /\ optlevel = "2"
  /\ splitfile = None
  /\ files = fs
  /\ index_rsp = <<>>
  /\ used_obj_file = [exists |-> FALSE, lines |-> <<>>]
  /\ objs = <<>>
  /\ ninja = NoGraph
  /\ built = {}
  /\ node_failed = FALSE
  /\ link_started = FALSE
  /\ procs = <<>>
  /\ result = -1          \* no exit status yet

InitWith(a) == InitOn(a, DiskFiles)

Init == \E a \in DriverArgvs : InitWith(a)

InitClassify == \E a \in ClassifyArgvs : InitWith(a)

InitExpand == \E a \in ExpandArgvs : InitWith(a)

\* the object file x.obj has any of the contents
InitBitcode ==
  \E c \in BitcodeContents :
    InitOn(<<"goma_link.py", "lld-link", "-v", "-out:foo.exe", "x.obj">>,
           ("x.obj" :> c) @@ DiskFiles)

Parsed == [parse_args(argv) EXCEPT !.output = output_path(Tail(argv))]

Classifier ==
  [index_params |-> index_params, codegen |-> codegen,
   codegen_params |-> codegen_params, final_params |-> final_params,
   in_mllvm |-> in_mllvm, optlevel |-> optlevel, files |-> files]

AnalyzeVars ==
  <<expanded_args, i, index_params, codegen, codegen_params, final_params,
    in_mllvm, optlevel, splitfile>>

ExecVars == <<ninja, built, node_failed, link_started>>

(***************************************************************************)
(* do_main, lines 526-529: the command line cannot be parsed.              *)
(***************************************************************************)
ParseFails ==
  /\ pc = "start"
  /\ LET parsed == parse_args(argv)
     IN  /\ parsed.status # "ok"
         /\ args' = parsed
  /\ pc' = "crashed"
  /\ UNCHANGED <<argv, gomacc, jobs, AnalyzeVars, files, index_rsp, used_obj_file,
                 objs, ExecVars, procs, result>>

(***************************************************************************)
(* do_main, lines 526-529: no output path, the original link is run.       *)
(***************************************************************************)
NoOutput(rc) ==
  /\ pc = "start"
  /\ LET parsed == Parsed
     IN  /\ parsed.status = "ok"
         /\ parsed.output = None
         /\ args' = parsed
         /\ procs' = Append(procs, [cmd |-> <<parsed.linker>> \o parsed.linker_args,
                                    state |-> "exited", rc |-> rc])
  /\ result' = rc
  /\ pc' = "done"
  /\ UNCHANGED <<argv, gomacc, jobs, AnalyzeVars, files, index_rsp, used_obj_file,
                 objs, ExecVars>>

(***************************************************************************)
(* do_main, lines 530-548, and analyze_args up to the loop (305-408).      *)
(***************************************************************************)
BeginAnalyze ==
  /\ pc = "start"
  /\ LET parsed == Parsed
         expanded == expand_all(files, parsed.linker_args)
     IN  /\ parsed.status = "ok"
         /\ parsed.output # None
         /\ args' = parsed
         /\ gomacc' = IF IsSet(parsed.gomacc) THEN parsed.gomacc ELSE gomacc
         /\ IF IsSet(parsed.jobs) /\ ~IsInt(parsed.jobs)
            THEN \* int(args.jobs) raises ValueError
                 /\ pc' = "crashed"
                 /\ UNCHANGED <<jobs, AnalyzeVars>>
            ELSE /\ jobs' = IF IsSet(parsed.jobs) THEN IntStr(parsed.jobs) ELSE jobs
                 /\ IF IsExcludedToolchain(parsed)
                    THEN /\ pc' = "fastpath"
                         /\ UNCHANGED AnalyzeVars
                    ELSE /\ pc' = IF expanded.raised THEN "crashed" ELSE "classify"
                         /\ index_params' =
                              <<WL \o PREFIX_REPLACE \o ";" \o obj_dir(parsed)>>
                         /\ codegen' = <<>>
                         /\ codegen_params' = <<"-Wno-unused-command-line-argument",
                                                "-Wno-override-module">>
                         /\ final_params' = <<>>
                         /\ in_mllvm' = FALSE
                         /\ optlevel' = "2"
                         /\ expanded_args' = expanded.list
                         /\ i' = 0
                         /\ UNCHANGED splitfile
  /\ UNCHANGED <<argv, files, index_rsp, used_obj_file, objs, ExecVars, procs, result>>

(***************************************************************************)
(* analyze_args, lines 410-420: one iteration of the loop.                 *)
(***************************************************************************)
ClassifyStep ==
  /\ pc = "classify"
  /\ i < Len(expanded_args)
  /\ LET st == classify_token(Classifier, expanded_args[i + 1], args)
     IN  /\ index_params' = st.index_params
         /\ codegen' = st.codegen
         /\ codegen_params' = st.codegen_params
         /\ final_params' = st.final_params
         /\ in_mllvm' = st.in_mllvm
         /\ optlevel' = st.optlevel
         /\ files' = st.files
  /\ i' = i + 1
  /\ UNCHANGED <<pc, argv, args, gomacc, jobs, expanded_args, splitfile, index_rsp,
                 used_obj_file, objs, ExecVars, procs, result>>

(***************************************************************************)
(* analyze_args, lines 422-448: the result.                                *)
(***************************************************************************)
FinishAnalyze ==
  /\ pc = "classify"
  /\ i >= Len(expanded_args)
  /\ IF Len(codegen) < 1
     THEN /\ pc' = "fastpath"
          /\ UNCHANGED <<codegen_params, final_params, index_params, splitfile>>
     ELSE /\ pc' = "objs"
          /\ codegen_params' = finish_codegen_params(codegen_params, optlevel)
          /\ final_params' = finish_final_params(final_params, codegen, args)
          /\ index_params' = finish_index_params(index_params, args)
          /\ splitfile' = IF use_common_objects(args) THEN None
                          ELSE splitfile_path(args)
  /\ UNCHANGED <<argv, args, gomacc, jobs, expanded_args, i, codegen, in_mllvm,
                 optlevel, files, index_rsp, used_obj_file, objs, ExecVars, procs,
                 result>>

(***************************************************************************)
(* do_main, lines 551-552: analyze_args returned None.                     *)
(***************************************************************************)
fastpath_cmd(av) == Tail(av)

FastPath(rc) ==
  /\ pc = "fastpath"
  /\ procs' = Append(procs, [cmd |-> fastpath_cmd(argv), state |-> "exited", rc |-> rc])
  /\ result' = rc
  /\ pc' = "done"
  /\ UNCHANGED <<argv, args, gomacc, jobs, AnalyzeVars, files, index_rsp,
                 used_obj_file, objs, ExecVars>>

(***************************************************************************)
(* do_main, lines 553-555: shared mode, all registered native objects.     *)
(***************************************************************************)
shared_objs(cg) == Natives(cg)

SharedObjects ==
  /\ pc = "objs"
  /\ use_common_objects(args)
  /\ objs' = shared_objs(codegen)
  /\ files' = create_file(files, common_dir \o "/empty.thinlto.bc")
  /\ pc' = "codegen_and_link"
  /\ UNCHANGED <<argv, args, gomacc, jobs, AnalyzeVars, index_rsp, used_obj_file,
                 ExecVars, procs, result>>

(***************************************************************************)
(* do_main, line 557: thin_link (479-504).  The index-only link exits with *)
(* rc; when it exits 0 it has written the used-object list (wrote) or not, *)
(* and the split object (split) or not.                                    *)
(***************************************************************************)
ThinLink(rc, wrote, split, keep) ==
  /\ pc = "objs"
  /\ ~use_common_objects(args)
  /\ index_rsp' = MapRspenc(index_params)
  /\ procs' = Append(procs, [cmd |-> index_cmd(args), state |-> "exited", rc |-> rc])
  /\ IF rc # 0
     THEN \* subprocess.CalledProcessError, caught by main
          /\ result' = main_status(rc)
          /\ pc' = "done"
          /\ UNCHANGED <<used_obj_file, objs, files>>
     ELSE /\ files' = IF split THEN create_file(files, splitfile_path(args))
                      ELSE files
          /\ IF ~wrote
             THEN \* open(used_obj_file) raises IOError, which main does not catch
                  /\ pc' = "crashed"
                  /\ UNCHANGED <<used_obj_file, objs, result>>
             ELSE /\ used_obj_file' =
                       [exists |-> TRUE,
                        lines |-> linker_used_objs(args, codegen, keep)]
                  /\ objs' = read_used_objs(linker_used_objs(args, codegen, keep))
                  /\ pc' = "codegen_and_link"
                  /\ UNCHANGED result
  /\ UNCHANGED <<argv, args, gomacc, jobs, AnalyzeVars, ExecVars>>

(***************************************************************************)
(* codegen_and_link, lines 513-518: the graph is written and the executor  *)
(* is started.                                                             *)
(***************************************************************************)
CodegenAndLink ==
  /\ pc = "codegen_and_link"
  /\ ninja' = gen_ninja(args, gomacc, codegen, codegen_params, final_params, objs)
  /\ procs' = Append(procs, [cmd |-> ninja_cmd(args, jobs), state |-> "running",
                             rc |-> 0])
  /\ pc' = "ninja"
  /\ UNCHANGED <<argv, args, gomacc, jobs, AnalyzeVars, files, index_rsp,
                 used_obj_file, objs, built, node_failed, link_started, result>>

(***************************************************************************)
(* The build executor (ninja) on the generated graph.  It builds the       *)
(* default target: the FinalLinkNode and the CodegenNodes whose outputs    *)
(* are inputs of it.  CodegenNodes run in any order; a failed node stops   *)
(* the build.                                                              *)
(***************************************************************************)
Range(q) == {q[k] : k \in 1..Len(q)}

\* the CodegenNodes the default target depends on
NeededNodes(g) == {n \in 1..Len(g.codegen) : g.codegen[n].out \in Range(g.link.inputs)}

\* inputs of the FinalLinkNode that no build statement produces
SourceInputs(g) == Range(g.link.inputs) \ {g.codegen[n].out : n \in 1..Len(g.codegen)}

MissingInputs(g, fs) == {x \in SourceInputs(g) : ~exists(fs, x)}

RunCodegen(n, ok) ==
  /\ pc = "ninja"
  /\ ~node_failed
  /\ ~link_started
  /\ MissingInputs(ninja, files) = {}
  /\ n \in NeededNodes(ninja) \ built
  /\ IF ok
     THEN built' = built \cup {n} /\ UNCHANGED node_failed
     ELSE node_failed' = TRUE /\ UNCHANGED built
  /\ UNCHANGED <<pc, argv, args, gomacc, jobs, AnalyzeVars, files, index_rsp,
                 used_obj_file, objs, ninja, link_started, procs, result>>

StartFinalLink ==
  /\ pc = "ninja"
  /\ ~node_failed
  /\ ~link_started
  /\ MissingInputs(ninja, files) = {}
  /\ NeededNodes(ninja) \subseteq built
  /\ link_started' = TRUE
  /\ UNCHANGED <<pc, argv, args, gomacc, jobs, AnalyzeVars, files, index_rsp,
                 used_obj_file, objs, ninja, built, node_failed, procs, result>>

(***************************************************************************)
(* codegen_and_link line 518 returns or raises; do_main line 559; main.    *)
(* The executor exits 0 only after a final link that succeeded.            *)
(***************************************************************************)
ExecutorExit(rc) ==
  /\ pc = "ninja"
  /\ \/ link_started
     \/ (rc # 0 /\ (node_failed \/ MissingInputs(ninja, files) # {}))
  /\ procs' = [procs EXCEPT ![Len(procs)] = [@ EXCEPT !.state = "exited", !.rc = rc]]
  /\ result' = main_status(rc)
  /\ pc' = "done"
  /\ UNCHANGED <<argv, args, gomacc, jobs, AnalyzeVars, files, index_rsp,
                 used_obj_file, objs, ExecVars>>

Next ==
  \/ ParseFails
  \/ \E rc \in ExitCodes : NoOutput(rc)
  \/ BeginAnalyze
  \/ ClassifyStep
  \/ FinishAnalyze
  \/ \E rc \in ExitCodes : FastPath(rc)
  \/ SharedObjects
  \/ \E rc \in ExitCodes, wrote \in BOOLEAN, split \in BOOLEAN,
        keep \in SUBSET (1..Len(codegen)) :
       ThinLink(rc, wrote, split, keep)
  \/ CodegenAndLink
  \/ \E n \in 1..Len(codegen), ok \in BOOLEAN : RunCodegen(n, ok)
  \/ StartFinalLink
  \/ \E rc \in ExitCodes : ExecutorExit(rc)

Spec == Init /\ [][Next]_vars

\* analyze_args alone, on every kind of token
NextClassify == BeginAnalyze \/ ClassifyStep \/ FinishAnalyze

SpecClassify == InitClassify /\ [][NextClassify]_vars

\* analyze_args alone, on response files and archives
SpecExpand == InitExpand /\ [][NextClassify]_vars

\* analyze_args alone, on an object file of any content
SpecBitcode == InitBitcode /\ [][NextClassify]_vars

(***************************************************************************)
(* Observations on a run, used by the properties below.                    *)
(***************************************************************************)
\* the original link invocation
OriginalLink == <<args.linker>> \o args.linker_args

IsIndexLink(p) == Len(p.cmd) >= 2 /\ StartsWith(p.cmd[2], "-thinlto-index-only")

IsExecutorRun(p) == p.cmd[1] = autoninja

IndexLinkRuns == {k \in 1..Len(procs) : IsIndexLink(procs[k])}

ExecutorRuns == {k \in 1..Len(procs) : IsExecutorRun(procs[k])}

Terminated == pc \in {"done", "crashed"}

\* analyze_args returned a parameter set
OnDistributedPath ==
  Len(codegen) >= 1 /\ pc \in {"objs", "codegen_and_link", "ninja", "done", "crashed"}

HasOutputFlag(l) == \E k \in 1..Len(l) : OUTPUT_RE_match(l[k])

HasBitcodeObject(l) ==
  \E k \in 1..Len(l) :
    exists(DiskFiles, l[k]) /\ OBJ_RE_match(l[k]) /\ is_bitcode_file(DiskFiles, l[k])

(***************************************************************************)
(* C1.  Fast path: when the linker is an excluded toolchain or no bitcode  *)
(* file is registered, the driver runs exactly one subprocess, whose       *)
(* command is the original link invocation [linker] + linker_args, and     *)
(* returns that process's exit status.                                     *)
(***************************************************************************)
C1_FastPathVerbatim ==
  (pc = "done" /\ (IsExcludedToolchain(args) \/ Len(codegen) = 0))
    => /\ Len(procs) = 1
       /\ procs[1].cmd = OriginalLink
       /\ result = procs[1].rc

(***************************************************************************)
(* C2.  An invocation that contains an output-path flag, whose linker is   *)
(* not excluded and which names a bitcode object file ends on the          *)
(* distributed path: the original link is not re-executed, and unless a    *)
(* tool fails the graph is generated and the executor invoked.             *)
(***************************************************************************)
C2_EndsDistributed ==
  (/\ pc = "done"
   /\ HasOutputFlag(args.linker_args)
   /\ ~IsExcludedToolchain(args)
   /\ HasBitcodeObject(args.linker_args))
    => /\ \A k \in 1..Len(procs) : procs[k].cmd \notin {OriginalLink, Tail(argv)}
       /\ (\A k \in 1..Len(procs) : procs[k].rc = 0)
            => (ExecutorRuns # {} /\ ninja.default # None)

(***************************************************************************)
(* C3.  Original statement: on the distributed path a tool that exits      *)
(* non-zero is the last tool run and its status is the driver's status;    *)
(* if every tool that was run exits zero the driver returns 0.             *)
(***************************************************************************)
FailedToolIsLast ==
  \A k \in 1..Len(procs) :
    (procs[k].state = "exited" /\ procs[k].rc # 0)
      => (k = Len(procs) /\ (Terminated => (pc = "done" /\ result = procs[k].rc)))

AllToolsExitedZero == \A k \in 1..Len(procs) : procs[k].rc = 0

C3_StatusMirrored ==
  OnDistributedPath
    => /\ FailedToolIsLast
       /\ (Terminated /\ AllToolsExitedZero) => (pc = "done" /\ result = 0)

(***************************************************************************)
(* C3, amended.  As above, but the driver returns 0 when every tool of the *)
(* path, the executor included, was run and exited zero: an index-only     *)
(* link that exits zero without leaving the used-object list ends the      *)
(* driver with an uncaught IOError before the executor is started.         *)
(***************************************************************************)
C3_StatusMirroredWhenExecutorRan ==
  OnDistributedPath
    => /\ FailedToolIsLast
       /\ (Terminated /\ AllToolsExitedZero /\ ExecutorRuns # {})
            => (pc = "done" /\ result = 0)
       /\ (pc = "crashed") => (ExecutorRuns = {} /\ ~used_obj_file.exists)

C3_Witness ==
  /\ pc = "done"
  /\ Len(procs) = 2
  /\ IsIndexLink(procs[1]) /\ procs[1].rc = 0
  /\ IsExecutorRun(procs[2]) /\ procs[2].rc = 3
  /\ result = 3

(***************************************************************************)
(* C4.  On the distributed path the run is in private mode iff the         *)
(* basename of the output name is whitelisted; the index-only link runs    *)
(* iff the mode is private, at most once and before the executor; in       *)
(* shared mode the objects given to gen_ninja are the native paths of all  *)
(* registered bitcode files.                                               *)
(***************************************************************************)
Whitelisted == basename(args.output) \in WHITELISTED_TARGETS

C4_ModeAndStageOrder ==
  (OnDistributedPath /\ pc # "objs")
    => /\ Cardinality(IndexLinkRuns) = (IF Whitelisted THEN 1 ELSE 0)
       /\ Cardinality(ExecutorRuns) <= 1
       /\ \A x \in IndexLinkRuns, e \in ExecutorRuns : x < e
       /\ Whitelisted <=> (splitfile # None)
       /\ Whitelisted <=> (index_params[1] = "-thinlto-prefix-replace:;lto." \o basename(args.output))
       /\ (~Whitelisted /\ pc \in {"codegen_and_link", "ninja"})
            => /\ Len(objs) = Len(codegen)
               /\ \A k \in 1..Len(codegen) : objs[k] = codegen[k][1]

C4_Witness ==
  /\ pc = "ninja"
  /\ Whitelisted
  /\ Cardinality(IndexLinkRuns) = 1
  /\ Cardinality(ExecutorRuns) = 1

(***************************************************************************)
(* C5.  Completion barrier: the final link is not started before every     *)
(* native object it consumes, named in its parameters or in the            *)
(* used-object list, has been produced by a CodegenNode that completed;    *)
(* after a CodegenNode failed it is never started.                         *)
(***************************************************************************)
RegisteredNatives == {codegen[k][1] : k \in 1..Len(codegen)}

ConsumedNatives ==
  (Range(final_params) \cap RegisteredNatives)
  \cup (IF ("@" \o used_obj_path(args)) \in Range(final_params)
        THEN {normpath(l) : l \in Range(used_obj_file.lines)}
        ELSE {})

Produced == {ninja.codegen[n].out : n \in built}

C5_CompletionBarrier ==
  /\ link_started => \A o \in ConsumedNatives : ninjaenc(o) \in Produced
  /\ node_failed => ~link_started

C5_Witness ==
  /\ link_started
  /\ Cardinality(ConsumedNatives) >= 2
  /\ Cardinality(built) >= 2

(***************************************************************************)
(* Observations on the classification loop.                                *)
(***************************************************************************)
\* the tokens the loop has classified so far
Processed == SubSeq(expanded_args, 1, i)

\* the token the next iteration classifies
Tok == expanded_args[i + 1]

\* this step is one iteration of the loop
Iteration == pc = "classify" /\ i' = i + 1

\* the iteration hands Tok to process_param
IsParam(x) == ~GROUP_RE_match(x) /\ ~OUTPUT_RE_match(x)

Count(q, x) == Cardinality({k \in 1..Len(q) : q[k] = x})

RECURSIVE IsSubsequence(_, _)
IsSubsequence(q, r) ==
  IF q = <<>> THEN TRUE
  ELSE IF r = <<>> THEN FALSE
  ELSE IF Head(q) = Head(r) THEN IsSubsequence(Tail(q), Tail(r))
  ELSE IsSubsequence(q, Tail(r))

UnitsOf(x) == {k \in 1..Len(codegen) : codegen[k][2] = x}

\* the token is a file that process_param registers for code generation
IsRegisteredFile(x) ==
  exists(files, x) /\ OBJ_RE_match(x) /\ is_bitcode_file(files, x)

\* process_param drops the token from the final link
DroppedFromFinal(x) ==
  IF exists(files, x) THEN IsRegisteredFile(x) ELSE LTO_RE_match(x)

IsOptLevelFlag(x) == LTO_O_match(x) \/ OPT_LLDLTO_match(x)

\* the final parameters that come from the input, without what lines 428-437 add
InputFinal ==
  IF pc = "objs"
  THEN SubSeq(final_params, 1,
              Len(final_params) - (IF use_common_objects(args) THEN Len(codegen) ELSE 2))
  ELSE final_params

(***************************************************************************)
(* C6.  Classification preserves order in final: the tokens of final that  *)
(* come from the input are a subsequence of the input, so two of them are  *)
(* in the order of the input and none is duplicated.                       *)
(***************************************************************************)
C6_FinalOrderPreserved ==
  /\ (pc = "classify") => IsSubsequence(final_params, Processed)
  /\ (pc \in {"objs", "fastpath"} /\ ~IsExcludedToolchain(args))
       => IsSubsequence(InputFinal, expanded_args)

C6_Witness ==
  /\ pc = "objs"
  /\ Len(InputFinal) >= 3
  /\ Len(InputFinal) < Len(expanded_args)
  /\ \E j, k \in 1..Len(InputFinal) : j < k /\ InputFinal[j] # InputFinal[k]

(***************************************************************************)
(* C7.  Original statement: the tokens of an mllvm pass-through flag       *)
(* contribute ['-mllvm', value] to codegen and nothing to index and        *)
(* nothing to final.                                                       *)
(***************************************************************************)
C7_MllvmCodegenOnly ==
  [][ (Iteration /\ IsParam(Tok) /\ (in_mllvm \/ MLLVM_RE_match(Tok)))
        => /\ index_params' = index_params
           /\ final_params' = final_params ]_vars

(***************************************************************************)
(* C7, amended.  The inline-value form contributes exactly                 *)
(* ['-mllvm', value] to codegen; the value-less form contributes '-mllvm'  *)
(* and the next classified token contributes itself (without a leading     *)
(* '-Wl,') as the value, so the two give the pair ['-mllvm', 'foo'].  The  *)
(* same tokens are also classified like any other token: each is appended  *)
(* to index, and to final unless it is a registered bitcode file or a      *)
(* non-file LTO toggle.                                                    *)
(***************************************************************************)
MllvmValue(x) == IF StartsWith(x, "-Wl,") THEN From(x, 4) ELSE x

C7_MllvmCodegenAndLinks ==
  [][ (Iteration /\ IsParam(Tok) /\ (in_mllvm \/ MLLVM_RE_match(Tok)))
        => /\ (~in_mllvm /\ MLLVM_RE_group2(Tok) # "")
                => /\ codegen_params'
                        = codegen_params \o <<"-mllvm", MLLVM_RE_group2(Tok)>>
                   /\ ~in_mllvm'
           /\ (~in_mllvm /\ MLLVM_RE_group2(Tok) = "")
                => /\ codegen_params' = Append(codegen_params, "-mllvm")
                   /\ in_mllvm'
           /\ in_mllvm
                => /\ codegen_params' = Append(codegen_params, MllvmValue(Tok))
                   /\ codegen_params[Len(codegen_params)] = "-mllvm"
                   /\ ~in_mllvm'
           /\ index_params' = Append(index_params, Tok)
           /\ final_params' = IF DroppedFromFinal(Tok) THEN final_params
                              ELSE Append(final_params, Tok) ]_vars

C7_Witness ==
  /\ pc = "classify"
  /\ i >= 2
  /\ expanded_args[i - 1] = "-mllvm"
  /\ expanded_args[i] = "foo"
  /\ SubSeq(codegen_params, Len(codegen_params) - 1, Len(codegen_params))
       = <<"-mllvm", "foo">>
  /\ SubSeq(final_params, Len(final_params) - 1, Len(final_params))
       = <<"-mllvm", "foo">>
  /\ SubSeq(index_params, Len(index_params) - 1, Len(index_params))
       = <<"-mllvm", "foo">>

(***************************************************************************)
(* C8.  Original statement: an LTO optimization-level flag never appears   *)
(* in index, in codegen or in final.                                       *)
(***************************************************************************)
C8_OptLevelFlagNowhere ==
  \A x \in Range(index_params) \cup Range(codegen_params) \cup Range(final_params) :
    ~IsOptLevelFlag(x)

(***************************************************************************)
(* C8, amended.  An LTO optimization-level flag that is classified as a    *)
(* flag (not as the value of a value-less mllvm flag) sets the captured    *)
(* level and contributes nothing to codegen; the flag token is appended to *)
(* index, and to final unless it is a non-file LTO toggle (the '-Wl,'      *)
(* spelling).  As the value of a value-less mllvm flag it is copied to     *)
(* codegen and the level is not captured.                                  *)
(***************************************************************************)
OptLevelOf(x) == IF LTO_O_match(x) THEN LTO_O_group1(x) ELSE OPT_LLDLTO_group1(x)

C8_OptLevelFlagCaptured ==
  [][ (Iteration /\ IsOptLevelFlag(Tok))
        => /\ ~in_mllvm => /\ codegen_params' = codegen_params
                           /\ optlevel' = OptLevelOf(Tok)
           /\ in_mllvm => /\ codegen_params' = Append(codegen_params, MllvmValue(Tok))
                          /\ optlevel' = optlevel
           /\ index_params' = Append(index_params, Tok)
           /\ final_params' = IF DroppedFromFinal(Tok) THEN final_params
                              ELSE Append(final_params, Tok) ]_vars

C8_Witness ==
  /\ pc = "classify"
  /\ i >= 2
  /\ expanded_args[i - 1] = "-Wl,--lto-O1"
  /\ expanded_args[i] = "/opt:lldlto=0"
  /\ optlevel = "0"
  /\ Count(index_params, "-Wl,--lto-O1") = 1
  /\ Count(final_params, "-Wl,--lto-O1") = 0
  /\ Count(final_params, "/opt:lldlto=0") = 1
  /\ Len(codegen_params) = 2

(***************************************************************************)
(* C9.  Original statement: every token that is an existing file passing   *)
(* the bitcode-magic test is registered as exactly one BitcodeUnit and is  *)
(* not in final; every token that is an existing file not passing the test *)
(* is in final and in index and registers no BitcodeUnit.                  *)
(***************************************************************************)
C9_EveryBitcodeFileRegistered ==
  (pc = "classify")
    => \A x \in Range(Processed) :
         (IsParam(x) /\ exists(files, x))
           => IF is_bitcode_file(files, x)
              THEN /\ Cardinality(UnitsOf(x)) = Count(Processed, x)
                   /\ x \notin Range(final_params)
              ELSE /\ UnitsOf(x) = {}
                   /\ x \in Range(final_params)
                   /\ x \in Range(index_params)

(***************************************************************************)
(* C9, amended.  Every token handed to process_param that is an existing   *)
(* file, has an object-file name (OBJ_RE) and passes the bitcode-magic     *)
(* test registers one BitcodeUnit per occurrence and is not in final;      *)
(* every other existing-file token, a bitcode file without an object-file  *)
(* name included, is in final once per occurrence and registers no         *)
(* BitcodeUnit; both kinds are in index once per occurrence.               *)
(***************************************************************************)
C9_ObjectNamedBitcodeRegistered ==
  (pc = "classify")
    => \A x \in Range(Processed) :
         (IsParam(x) /\ exists(files, x))
           => /\ Count(index_params, x) = Count(Processed, x)
              /\ IF OBJ_RE_match(x) /\ is_bitcode_file(files, x)
                 THEN /\ Cardinality(UnitsOf(x)) = Count(Processed, x)
                      /\ Count(final_params, x) = 0
                 ELSE /\ UnitsOf(x) = {}
                      /\ Count(final_params, x) = Count(Processed, x)

C9_Witness ==
  /\ pc = "classify"
  /\ i = Len(expanded_args)
  /\ "c.bc" \in Range(final_params)
  /\ "b.obj" \in Range(final_params)
  /\ Cardinality(UnitsOf("a.obj")) = 1
  /\ UnitsOf("c.bc") = {}

(***************************************************************************)
(* C10.  Uniqueness: after classification no two registered BitcodeUnits   *)
(* have the same native-object path, so no two CodegenNodes have the same  *)
(* output.                                                                 *)
(***************************************************************************)
C10_NativePathsUnique ==
  (pc = "objs")
    => \A j, k \in 1..Len(codegen) : (j # k) => codegen[j][1] # codegen[k][1]

(***************************************************************************)
(* Observations on the generated build graph.                              *)
(***************************************************************************)
GraphWritten == ninja.default # None

NodeOutputs == {ninja.codegen[n].out : n \in 1..Len(ninja.codegen)}

\* the native objects the graph is generated for (the ThinLinkResult's
\* required set in private mode, every registered unit in shared mode)
Required == {ninjaenc(objs[k]) : k \in 1..Len(objs)}

(***************************************************************************)
(* C11.  Original statement: the graph has exactly one FinalLinkNode and   *)
(* exactly one CodegenNode per required triple; in private mode no         *)
(* CodegenNode is emitted for a registered unit the thin link did not list *)
(* as required.                                                            *)
(***************************************************************************)
C11_NodePerRequiredUnit ==
  GraphWritten
    => /\ ninja.link.out = ninja.default
       /\ Len(ninja.codegen) = Len(objs)
       /\ NodeOutputs = Required

(***************************************************************************)
(* C11, amended.  The graph has exactly one FinalLinkNode and exactly one  *)
(* CodegenNode per registered BitcodeUnit, in private mode as in shared    *)
(* mode; the FinalLinkNode depends on exactly the outputs required (the    *)
(* thin link's list in private mode, every registered unit in shared       *)
(* mode), so a CodegenNode of a unit that is not required is emitted but   *)
(* the default target does not depend on it.  One bitcode object yields    *)
(* one CodegenNode and one FinalLinkNode, with an edge between them iff    *)
(* the unit is required.                                                   *)
(***************************************************************************)
C11_NodePerRegisteredUnit ==
  GraphWritten
    => /\ ninja.link.out = ninja.default
       /\ ninja.default = ninjaenc(args.output)
       /\ Len(ninja.codegen) = Len(codegen)
       /\ \A k \in 1..Len(codegen) :
            /\ ninja.codegen[k].out = ninjaenc(codegen[k][1])
            /\ ninja.codegen[k].bitcode = ninjaenc(codegen[k][2])
            /\ ninja.codegen[k].index = ninjaenc(codegen[k][3])
       /\ Len(ninja.link.inputs) = Len(objs)
       /\ \A k \in 1..Len(objs) : ninja.link.inputs[k] = ninjaenc(objs[k])
       /\ Whitelisted \/ (Required = NodeOutputs)

C11_Witness ==
  /\ GraphWritten
  /\ Whitelisted
  /\ Len(ninja.codegen) = 2
  /\ Len(objs) = 1
  /\ NodeOutputs \ Required # {}

(***************************************************************************)
(* C12.  The FinalLinkNode's declared dependencies are exactly the outputs *)
(* of all CodegenNodes of the graph together with every token of final     *)
(* that is a literal (non-bitcode) input file; none of them is missing.    *)
(* Read in the code's favour: of the CodegenNodes only those of required   *)
(* units are asked for.                                                    *)
(***************************************************************************)
\* the tokens of final that are files given on the command line
LiteralFinalInputs ==
  {ninjaenc(final_params[k]) : k \in {j \in 1..Len(final_params) :
                                        exists(DiskFiles, final_params[j])}}

C12_LinkDependsOnAllInputs ==
  GraphWritten
    => /\ Required \cup LiteralFinalInputs \subseteq Range(ninja.link.inputs)
       /\ Range(ninja.link.inputs) \subseteq NodeOutputs \cup LiteralFinalInputs

(***************************************************************************)
(* C13.  The final link's parameter list is the final stream in which      *)
(* every registered bitcode path is replaced by its native-object path at  *)
(* the position the bitcode path held in the input; no raw bitcode path    *)
(* remains; exactly in private mode a split-object input and a             *)
(* used-object-list indirection are appended.                              *)
(***************************************************************************)
\* the input with every registered bitcode path replaced in place
RECURSIVE ReplacedInPlace(_)
ReplacedInPlace(l) ==
  IF l = <<>> THEN <<>>
  ELSE LET x == Head(l)
       IN  (IF GROUP_RE_match(x) THEN <<>>
            ELSE IF OUTPUT_RE_match(x) THEN <<x>>
            ELSE IF exists(DiskFiles, x) /\ OBJ_RE_match(x)
                    /\ is_bitcode_file(DiskFiles, x)
                 THEN <<normpath(native_raw(args, x))>>
            ELSE IF ~exists(DiskFiles, x) /\ LTO_RE_match(x) THEN <<>>
            ELSE <<x>>)
           \o ReplacedInPlace(Tail(l))

C13_NativeReplacesBitcodeInPlace ==
  (OnDistributedPath /\ pc # "crashed")
    => /\ final_params
            = ReplacedInPlace(expanded_args)
              \o (IF Whitelisted
                  THEN <<splitfile_path(args), "@" \o used_obj_path(args)>>
                  ELSE <<>>)
       /\ \A k \in 1..Len(codegen) : codegen[k][2] \notin Range(final_params)

(***************************************************************************)
(* Observations on the expansion of the linker arguments.                  *)
(***************************************************************************)
\* the expansion has been done and the loop classifies its result
Expanded == pc = "classify"

IsRspReference(x) == Len(x) > 0 /\ Ch(x, 1) = "@" /\ exists(DiskFiles, From(x, 1))

(***************************************************************************)
(* C15.  Response-file expansion is recursive: a reference inside an       *)
(* expanded response file is expanded too, so no @file token that names a  *)
(* response file reaches classification.                                   *)
(***************************************************************************)
C15_NoRspReferenceLeft ==
  Expanded => \A k \in 1..Len(expanded_args) : ~IsRspReference(expanded_args[k])

(***************************************************************************)
(* C16.  Original statement: after response-file expansion every token     *)
(* that names an existing thin archive is replaced in place by start-lib,  *)
(* the members in archive order, each prefixed by the archive's directory, *)
(* and end-lib; every other token is passed through unchanged.  The        *)
(* members are the names the enumeration of the archive yields.            *)
(***************************************************************************)
\* the linker arguments after response-file expansion
RspExpanded == expand_args_rsps(DiskFiles, args.linker_args).list

IsThinArchiveFile(x) == exists(DiskFiles, x) /\ is_thin_archive(DiskFiles, x)

\* start-lib, the members under the archive's directory, end-lib
LibGroup(x) ==
  LET members == names_in_archive(DiskFiles, x).names
      dir == IF dirname(x) = "" THEN "" ELSE dirname(x) \o "/"
  IN  <<"-start-lib">> \o [k \in 1..Len(members) |-> dir \o members[k]]
      \o <<"-end-lib">>

RECURSIVE EveryThinArchiveReplaced(_)
EveryThinArchiveReplaced(l) ==
  IF l = <<>> THEN <<>>
  ELSE (IF IsThinArchiveFile(Head(l)) THEN LibGroup(Head(l)) ELSE <<Head(l)>>)
       \o EveryThinArchiveReplaced(Tail(l))

RECURSIVE NamedThinArchiveReplaced(_)
NamedThinArchiveReplaced(l) ==
  IF l = <<>> THEN <<>>
  ELSE (IF LIB_RE_match(Head(l)) /\ IsThinArchiveFile(Head(l))
        THEN LibGroup(Head(l)) ELSE <<Head(l)>>)
       \o NamedThinArchiveReplaced(Tail(l))

EnumerationFails(l) ==
  \E k \in 1..Len(l) :
    /\ LIB_RE_match(l[k]) /\ IsThinArchiveFile(l[k])
    /\ names_in_archive(DiskFiles, l[k]).raised

ContainsRun(q, r) ==
  \E k \in 0..(Len(q) - Len(r)) : SubSeq(q, k + 1, k + Len(r)) = r

C17_ShortNamesTrimmed ==
  (Expanded /\ "short.a" \in Range(args.linker_args))
    => ContainsRun(expanded_args, <<"-start-lib", "a.o", "b.o", "-end-lib">>)

(***************************************************************************)
(* C18.  The enumeration fails whenever a member header cannot be decoded: *)
(* the size field is truncated or not decimal, or a /<offset> name has no  *)
(* terminator in the extended-name table; no name is silently yielded from *)
(* such a header, so the expansion of such an archive does not complete.   *)
(***************************************************************************)
UndecodableArchives == {"trunc.a", "noterm.a", "bad.a"}

C18_UndecodableHeaderFails ==
  Expanded => Range(args.linker_args) \cap UndecodableArchives = {}

(***************************************************************************)
(* C19.  In private mode, if after an index-only link that exited zero the *)
(* used-object list or the split object does not exist, the driver fails   *)
(* and never invokes the build executor.                                   *)
(***************************************************************************)
IndexLinkSucceeded ==
  IndexLinkRuns # {} /\ \A k \in IndexLinkRuns : procs[k].rc = 0

C19_MissingArtifactIsFatal ==
  (/\ Whitelisted
   /\ IndexLinkSucceeded
   /\ ~used_obj_file.exists \/ ~exists(files, splitfile_path(args)))
    => (pc = "crashed" /\ ExecutorRuns = {})

(***************************************************************************)
(* C20.  Every output-path flag token of the expanded input is copied      *)
(* verbatim once into index and once into final, never into codegen, and   *)
(* no other rule applies to it: it is not tested as a file, registers no   *)
(* BitcodeUnit and is not consumed as the value of an mllvm flag.          *)
(***************************************************************************)
C20_OutputFlagCopiedOnly ==
  [][ (Iteration /\ OUTPUT_RE_match(Tok))
        => /\ index_params' = Append(index_params, Tok)
           /\ final_params' = Append(final_params, Tok)
           /\ codegen_params' = codegen_params
           /\ codegen' = codegen
           /\ in_mllvm' = in_mllvm
           /\ optlevel' = optlevel
           /\ files' = files ]_vars

C20_Witness ==
  /\ pc = "classify"
  /\ i >= 2
  /\ expanded_args[i - 1] = "-mllvm"
  /\ expanded_args[i] = "-out:x.obj"
  /\ in_mllvm
  /\ exists(files, "-out:x.obj")
  /\ UnitsOf("-out:x.obj") = {}
  /\ Count(index_params, "-out:x.obj") = 1
  /\ Count(final_params, "-out:x.obj") = 1
  /\ codegen_params[Len(codegen_params)] = "-mllvm"

(***************************************************************************)
(* C21.  Whenever classification encounters an output-path flag in the     *)
(* expanded argument vector, the link output name used by the driver       *)
(* (args.output) is that flag's normalized value.  Where the vector has    *)
(* several output flags the statement is taken in the code's favour: the   *)
(* name is the value of the first flag classification has encountered.     *)
(***************************************************************************)
FirstOutputFlag(l) ==
  l[CHOOSE k \in 1..Len(l) :
      OUTPUT_RE_match(l[k]) /\ \A j \in 1..(k - 1) : ~OUTPUT_RE_match(l[j])]

C21_OutputNameIsEncounteredFlag ==
  (pc = "classify" /\ HasOutputFlag(Processed))
    => args.output = normpath(OUTPUT_RE_group1(FirstOutputFlag(Processed)))

HasMagic(content) ==
  /\ Len(content) >= 4
  /\ content[1] = 66 /\ content[2] = 67 /\ content[3] = 192 /\ content[4] = 222

C23_BitcodeIffMagic ==
  /\ pc # "crashed"
  /\ \A k \in 1..Len(expanded_args) :
       (expanded_args[k] = "x.obj" /\ (pc # "classify" \/ i >= k))
         => /\ HasMagic(files["x.obj"]) <=> UnitsOf("x.obj") # {}
            /\ ~HasMagic(files["x.obj"]) <=> Count(final_params, "x.obj") = 1

C23_Witness ==
  /\ pc = "fastpath"
  /\ Len(files["x.obj"]) = 3
  /\ files["x.obj"] = SubSeq(BC_MAGIC, 1, 3)
  /\ Count(final_params, "x.obj") = 1

(***************************************************************************)
(* C24.  Two-state mllvm parser: after a value-less mllvm flag the parser  *)
(* awaits the value (in_mllvm) until the immediately following token has   *)
(* been classified, then awaits a token again.  A following parameter is   *)
(* consumed as the value: it is appended to codegen once, without a        *)
(* leading '-Wl,', and no codegen-flag rule is applied to it (no -m32, no  *)
(* captured level, no new wait when it is itself an mllvm flag).  A group  *)
(* marker or output-path flag that follows the flag does not leave the     *)
(* parser waiting for a later token.                                       *)
(***************************************************************************)
C24_MllvmValueIsNextToken ==
  [][ (Iteration /\ in_mllvm)
        => /\ ~in_mllvm'
           /\ IsParam(Tok)
                => /\ codegen_params' = Append(codegen_params, MllvmValue(Tok))
                   /\ optlevel' = optlevel ]_vars

(***************************************************************************)
(* C25.  Shared-object directory safety: two runs of the driver in shared  *)
(* mode, for different link targets, whose inputs include the same bitcode *)
(* path write the same shared native-object path only with identical       *)
(* codegen commands.  A run's graph depends on its command line and on the *)
(* input files only, so this run is compared with the graph each of the    *)
(* other runs writes, whenever it is written.                              *)
(***************************************************************************)
\* runs for another link target in shared mode, on the bitcode file a.obj
OtherRuns ==
  { <<"goma_link.py", "--", "lld-link", "/out:bar.exe", "a.obj">>,
    <<"goma_link.py", "--", "lld-link", "/out:bar.exe", "--lto-O3", "a.obj">>,
    <<"goma_link.py", "--", "lld-link", "/out:bar.exe", "-fno-x", "a.obj">> }

\* the command of a CodegenNode: the rule and the node's variables
NodeCommand(g, n) == <<g.codegen_command, n.index, n.bitcode, n.out>>

C25_SharedKeySameCommand ==
  (GraphWritten /\ use_common_objects(args))
    => \A av \in OtherRuns :
         LET h == run_graph(av, DiskFiles)
         IN  \A n \in Range(ninja.codegen), m \in Range(h.codegen) :
               (n.bitcode = m.bitcode /\ n.out = m.out)
                 => NodeCommand(ninja, n) = NodeCommand(h, m)

(***************************************************************************)
(* C26.  Original statement: whenever classification returns a parameter   *)
(* set, codegen holds exactly one '-O<level>' token, it is the last token  *)
(* of codegen, and its level is the value of the last optimization-level   *)
(* flag of the expanded input (either spelling), or 2 when the input has   *)
(* none; the number of level flags does not change the number of '-O'      *)
(* tokens.                                                                 *)
(***************************************************************************)
LevelTokens(q) == {k \in 1..Len(q) : StartsWith(q[k], "-O")}

LevelFlags(l) == {k \in 1..Len(l) : IsOptLevelFlag(l[k])}

LastLevel(l) == IF LevelFlags(l) = {} THEN "2" ELSE OptLevelOf(l[SetMax(LevelFlags(l))])

C26_LevelOfLastFlag ==
  (pc = "objs")
    => /\ LevelTokens(codegen_params) = {Len(codegen_params)}
       /\ codegen_params[Len(codegen_params)] = "-O" \o LastLevel(expanded_args)

(***************************************************************************)
(* C26, amended.  Whenever classification returns a parameter set, the     *)
(* last token of codegen is '-O<level>' and no other token of codegen      *)
(* that classification adds is one; the level is the value of the last     *)
(* optimization-level flag that is classified as a flag, or 2 when there   *)
(* is none.  A level flag that is consumed as the value of a value-less    *)
(* mllvm flag (the first token after that flag that is neither a group     *)
(* marker nor an output-path flag) sets no level.                          *)
(***************************************************************************)
\* the level after the tokens of l, when the parser awaits an mllvm value
\* (waiting) or not before the first of them
RECURSIVE LevelAfter(_, _, _)
LevelAfter(l, waiting, level) ==
  IF l = <<>> THEN level
  ELSE IF ~IsParam(Head(l)) THEN LevelAfter(Tail(l), waiting, level)
  ELSE IF waiting THEN LevelAfter(Tail(l), FALSE, level)
  ELSE LevelAfter(Tail(l),
                  MLLVM_RE_match(Head(l)) /\ MLLVM_RE_group2(Head(l)) = "",
                  IF IsOptLevelFlag(Head(l)) THEN OptLevelOf(Head(l)) ELSE level)

C26_LevelOfLastClassifiedFlag ==
  (pc = "objs")
    => /\ LevelTokens(codegen_params) = {Len(codegen_params)}
       /\ codegen_params[Len(codegen_params)]
            = "-O" \o LevelAfter(expanded_args, FALSE, "2")

C26_Witness ==
  /\ pc = "objs"
  /\ Len(expanded_args) >= 2
  /\ expanded_args[Len(expanded_args) - 1] = "-Wl,--lto-O1"
  /\ expanded_args[Len(expanded_args)] = "/opt:lldlto=0"
  /\ codegen_params[Len(codegen_params)] = "-O0"
  /\ Cardinality(LevelTokens(codegen_params)) = 1

(***************************************************************************)
(* C27.  Structure of index: its first token is the object-path remap      *)
(* directive, which occurs once; after it come the tokens of the expanded  *)
(* input that are not group markers, in input order, bitcode paths         *)
(* included; in private mode only, a returned parameter set ends with one  *)
(* lto-obj-path directive that names the split-object file.                *)
(***************************************************************************)
RECURSIVE WithoutGroupMarkers(_)
WithoutGroupMarkers(l) ==
  IF l = <<>> THEN <<>>
  ELSE (IF GROUP_RE_match(Head(l)) THEN <<>> ELSE <<Head(l)>>)
       \o WithoutGroupMarkers(Tail(l))

RemapDirective ==
  WL \o PREFIX_REPLACE \o ";"
  \o (IF Whitelisted THEN "lto." \o basename(args.output) ELSE "common_objs")

SplitDirective ==
  WL \o OBJ_PATH \o "lto." \o basename(args.output) \o "/" \o args.output
  \o ".split" \o OBJ_SUFFIX

C27_IndexStructure ==
  /\ (pc = "classify")
       => index_params = <<RemapDirective>> \o WithoutGroupMarkers(Processed)
  /\ (pc = "fastpath" /\ ~IsExcludedToolchain(args))
       => index_params = <<RemapDirective>> \o WithoutGroupMarkers(expanded_args)
  /\ (pc = "objs")
       => /\ index_params
               = <<RemapDirective>> \o WithoutGroupMarkers(expanded_args)
                 \o (IF Whitelisted THEN <<SplitDirective>> ELSE <<>>)
          /\ Count(index_params, RemapDirective) = 1
          /\ Count(index_params, SplitDirective) = (IF Whitelisted THEN 1 ELSE 0)

C27_Witness ==
  /\ pc = "objs"
  /\ Whitelisted
  /\ "--start-group" \in Range(expanded_args)
  /\ expanded_args[Len(expanded_args)] = "a.obj.x"
  /\ Len(index_params) = Len(expanded_args) + 1
  /\ index_params[Len(index_params) - 1] = "a.obj.x"

(***************************************************************************)
(* C28.  For a well-formed thin archive with a symbol table '/' and/or an  *)
(* extended-name table '//' the enumeration yields no entry for either     *)
(* record, skips exactly their payload (the size rounded up to even), so   *)
(* that every following header is read at its offset, and yields for each  *)
(* member named '/<offset>' the bytes of the extended-name table from that *)
(* offset up to the next '/\n'; there are as many names as member headers. *)
(* The archives on disk and the names of their member headers, in order:   *)
(*   lib.a      '//' of 12 bytes;          /0, /7    -> a.obj, e.o         *)
(*   d/lib.a    '//' of 7 bytes and a pad; /0        -> b.obj              *)
(*   sym.a      '/' of 3 bytes and a pad, '//';  /7, /0  -> e.o, a.obj     *)
(*   symonly.a  '/' of 4 bytes;  one member header with a short name       *)
(***************************************************************************)
MemberNames ==
  ("lib.a" :> <<"a.obj", "e.o">>) @@ ("d/lib.a" :> <<"d/b.obj">>)
  @@ ("sym.a" :> <<"e.o", "a.obj">>)

\* the tokens of l from start-lib to end-lib, for an expansion of one archive
GroupIn(l) ==
  LET from == CHOOSE k \in 1..Len(l) : l[k] = "-start-lib"
      to == CHOOSE k \in 1..Len(l) : l[k] = "-end-lib"
  IN  SubSeq(l, from + 1, to - 1)

C28_MetadataSkippedNamesResolved ==
  (Expanded /\ Len(RspExpanded) = 3)
    => LET x == RspExpanded[3]
       IN  /\ x \in DOMAIN MemberNames
                => expanded_args
                     = <<"-v", "-out:foo.exe", "-start-lib">> \o MemberNames[x]
                       \o <<"-end-lib">>
           /\ x = "symonly.a"
                => /\ Len(expanded_args) = 5
                   /\ Len(GroupIn(expanded_args)) = 1
                   /\ StartsWith(GroupIn(expanded_args)[1], "b.o/")

C28_Witness ==
  /\ Expanded
  /\ args.linker_args = <<"-v", "-out:foo.exe", "sym.a">>
  /\ expanded_args = <<"-v", "-out:foo.exe", "-start-lib", "e.o", "a.obj", "-end-lib">>

(***************************************************************************)
(* C29.  A run that ends on the fast path leaves the file system as it     *)
(* was: before and after the original link is run again the driver has     *)
(* created or modified no file (no index file, no response file, no build  *)
(* graph, nothing in the shared object directory).  Files are created only *)
(* in runs that register at least one bitcode file.                        *)
(***************************************************************************)
FileSystemUntouched ==
  /\ files = DiskFiles
  /\ index_rsp = <<>>
  /\ ~used_obj_file.exists
  /\ ~GraphWritten

OnFastPath ==
  \/ pc = "fastpath"
  \/ pc = "done" /\ \E k \in 1..Len(procs) : procs[k].cmd \in {OriginalLink, Tail(argv)}

C29_FastPathWritesNothing ==
  /\ OnFastPath => FileSystemUntouched
  /\ ~FileSystemUntouched => Len(codegen) >= 1

C29_Witness ==
  /\ pc = "done"
  /\ Len(procs) = 1
  /\ procs[1].cmd = Tail(argv)
  /\ Whitelisted
  /\ "b.obj" \in Range(expanded_args)
  /\ i = Len(expanded_args)
  /\ FileSystemUntouched

(***************************************************************************)
(* Observations on the command line.                                       *)
(***************************************************************************)
IsDriverOption(x) == x \in {"--gomacc", "--jobs", "-j"}

\* q without the driver options, each with its value, that it starts with
RECURSIVE AfterOptions(_)
AfterOptions(q) ==
  IF Len(q) >= 2 /\ IsDriverOption(q[1]) /\ ~StartsWith(q[2], "-")
  THEN AfterOptions(SubSeq(q, 3, Len(q)))
  ELSE q

\* the value of the last of the options named in names, None without one
RECURSIVE OptionValue(_, _, _)
OptionValue(q, names, v) ==
  IF Len(q) < 2 THEN v
  ELSE OptionValue(SubSeq(q, 3, Len(q)), names, IF q[1] \in names THEN q[2] ELSE v)

\* the run has failed on its command line, before any subprocess
FailedOnArguments == pc = "crashed" /\ args.status # "ok" /\ procs = <<>>

(***************************************************************************)
(* C30.  Original statement: driver options placed before the linker are   *)
(* consumed by the driver and are not part of the link invocation, whether *)
(* or not the separator '--' follows them; the parsed linker is the first  *)
(* token of the original link invocation; a command line with no linker    *)
(* fails with an argument error before any subprocess is run.              *)
(***************************************************************************)
StatedLink ==
  LET r == AfterOptions(Tail(argv))
  IN  IF r # <<>> /\ r[1] = "--" THEN Tail(r) ELSE r

C30_OptionsConsumedWithoutSeparator ==
  (pc # "start")
    => IF StatedLink = <<>> \/ IsDriverOption(StatedLink[1])
       THEN FailedOnArguments
       ELSE /\ args.status = "ok"
            /\ OriginalLink = StatedLink

(***************************************************************************)
(* C30, amended.  Driver options are consumed only when a separator '--'   *)
(* follows them: when the command line has a '--' after the program name,  *)
(* the tokens before the first one must all be driver options with their   *)
(* values, they set the compile-backend path and the jobs, and the parsed  *)
(* link invocation is what follows that '--'.  Without a '--' nothing is   *)
(* consumed: the parsed link invocation is the whole command line after    *)
(* the program name, so its first token is the linker even when it is      *)
(* spelled like a driver option.  A command line with no linker, or with   *)
(* something else than driver options before the '--', fails before any    *)
(* subprocess is run.                                                      *)
(***************************************************************************)
\* the position in argv of the first '--' after the program name, 0 if none
Separator ==
  LET at == {k \in 2..Len(argv) : argv[k] = "--"}
  IN  IF at = {} THEN 0 ELSE SetMin(at)

OptionPart == IF Separator > 0 THEN SubSeq(argv, 2, Separator - 1) ELSE <<>>

LinkPart == IF Separator > 0 THEN SubSeq(argv, Separator + 1, Len(argv)) ELSE Tail(argv)

C30_OptionsConsumedBeforeSeparator ==
  (pc # "start")
    => IF AfterOptions(OptionPart) # <<>> \/ LinkPart = <<>>
       THEN FailedOnArguments
       ELSE /\ args.status = "ok"
            /\ OriginalLink = LinkPart
            /\ args.gomacc = OptionValue(OptionPart, {"--gomacc"}, None)
            /\ args.jobs = OptionValue(OptionPart, {"--jobs", "-j"}, None)

C30_Witness ==
  /\ pc = "done"
  /\ Len(argv) >= 6
  /\ SubSeq(argv, 1, 6) = <<"goma_link.py", "--gomacc", "gcc", "-j", "4", "--">>
  /\ args.gomacc = "gcc"
  /\ args.jobs = "4"
  /\ args.linker = "bin/lld-link"
  /\ Len(args.linker_args) >= 2

====
